---- MODULE Spec2Model ----
(***************************************************************************)
(* Model of the durable batch-job lifecycle of texttools:                  *)
(*   - OfflineBatchProcessor (texttools/base/offline_batch_processor.py)   *)
(*     with the abstract methods of its concrete subclass                  *)
(*     OfflineQuestionDetector                                             *)
(*     (texttools/question_detector/offline_llm_detector.py);              *)
(*   - SimpleBatchManager (texttools/batch_manager/batch_manager.py).      *)
(* The remote batch service is the environment.  Every public method is    *)
(* one action; the variable `last` records what the latest call did (its   *)
(* outcome, the order of the remote/store operations it performed, the     *)
(* handlers it invoked, the value it returned).                            *)
(*                                                                         *)
(* Specifications:                                                         *)
(*   Spec          both classes, start / check_status / is_ready /         *)
(*                 fetch_results of OfflineBatchProcessor, the constructor *)
(*                 and start of SimpleBatchManager;                        *)
(*   SpecSBM       SimpleBatchManager alone, all its methods, with         *)
(*                 processes that die inside _save_state;                  *)
(*   SpecDetector  OfflineQuestionDetector with detect;                    *)
(*   SpecCrash     OfflineBatchProcessor with processes that die inside    *)
(*                 _save_state and the calls that meet the file left;      *)
(*   SpecIds       the four writers of task files, each called on its own; *)
(*   SpecRace      start, statement by statement, in two processes that    *)
(*                 share a state_dir;                                      *)
(*   SpecShared    a SimpleBatchManager whose state_dir is the one of an   *)
(*                 OfflineQuestionDetector (the default of both);          *)
(*   SpecCat       start_process and check_status of the OfflineCategorizer*)
(*                 of categorizer/offline_llm/offline_categorizer.py.      *)
(*                                                                         *)
(* The methods of that OfflineCategorizer are modelled as written, on an   *)
(* instance with the fields its __init__ assigns after line 34.  Line 34   *)
(* itself, super().__init__(categories, handlers=handlers), raises         *)
(* TypeError with the BaseCategorizer of categorizer/base.py, which takes  *)
(* only categories and defines no _dispatch.                               *)
(*                                                                         *)
(* Environment assumptions: each object has its own state_dir, except in   *)
(* SpecShared; local file                                                  *)
(* writes and deletes succeed unless a crash action says otherwise (so the *)
(* except branch of _clear_state is not taken); a remote call either       *)
(* answers or raises where an action has a fault input for it;             *)
(* batches.retrieve always answers.                                        *)
(* Of the other subclass, texttools OfflineCategorizer, only the writer of *)
(* the task file is modelled: its _submit_batch calls                      *)
(* batches.create(input_file=...), a keyword the OpenAI client does not    *)
(* take, so its start raises before any record.                            *)
(***************************************************************************)
EXTENDS Integers, Sequences, FiniteSets, TLC

\* ------------------------------------------------------------------ bounds
MaxItems == 2
MaxBatches == 2
\* longest list of texts handed to a submitter on its own
MaxTexts == 3

\* -------------------------------------------------------------- vocabulary
Jobs == {"j1"}
Texts == {"t1", "t2"}
Keys == {"a", "b"}
\* the handlers= list given to the constructor, in registration order
Handlers == <<"h1", "h2">>
\* str(i) for the indices enumerate() produces
Digits == <<"0", "1", "2", "3", "4", "5", "6", "7">>
Str(i) == Digits[i + 1]

NoFile == [kind |-> "none", batch |-> 0]
OutFile(b) == [kind |-> "out", batch |-> b]
ErrFile(b) == [kind |-> "err", batch |-> b]

\* what becomes of one task of a completed batch: a line of the output file
\* the entry parser accepts ("ok"), one it raises on ("bad"), or a line of the
\* error file ("err")
TaskOutcomes == {"ok", "bad", "err"}

SeqsUpTo(S, n) == UNION {[1..k -> S] : k \in 0..n}
IsInjective(s) == \A i, k \in DOMAIN s : s[i] = s[k] => i = k
Range(s) == {s[i] : i \in DOMAIN s}

\* payloads a caller may pass to start: a list of texts, a mapping id -> text
\* (its keys, in insertion order; the values are texts), or something else
ListPayloads == {[kind |-> "list", items |-> s] : s \in SeqsUpTo(Texts, MaxItems)}
MappingPayloads == {[kind |-> "mapping", items |-> s] : s \in {q \in SeqsUpTo(Keys, MaxItems) : IsInjective(q)}}
\* a payload that is neither a list nor a mapping (not iterable, e.g. a number)
OtherPayload == [kind |-> "other", items |-> <<>>]
Payloads == ListPayloads \cup MappingPayloads \cup {OtherPayload}
\* where an environment fault (disk, network) makes start raise
StartFaults == {"none", "prepare", "upload", "create"}

VARIABLES
    store,       \* OfflineBatchProcessor state_dir: job name -> list of records
    sbmSchema,   \* SimpleBatchManager: "unconstructed" or custom_json_schema_obj_str
    sbmStore,    \* SimpleBatchManager state_dir: job name -> list of records
    remote,      \* the remote service: live batch id -> batch
    nextBatch,   \* number of batches the remote has created so far
    submitted,   \* history: class, job name -> batches created since the last fetch_results
    expect,      \* history: job name -> the ids the caller of start expects back
    upload,      \* the task files the latest direct call of a submitter wrote
    damaged,     \* class, job name -> "no", or how the state file is unreadable
    invoked,     \* history: job name -> handler -> handle calls for the job's current batch
    race,        \* process -> where its start call is, and what it loaded and created
    cat,         \* categorizer OfflineCategorizer: self._jobs and its state file
    last         \* the latest call and what it did

vars == <<store, sbmSchema, sbmStore, remote, nextBatch, submitted, expect, upload, damaged, invoked,
          race, cat, last>>

Classes == {"obp", "sbm"}

NoCall ==
    [cls |-> "none", op |-> "none", job |-> "none", outcome |-> "none", exc |-> "none",
     pre |-> <<>>, trace |-> <<>>, handled |-> <<>>, results |-> <<>>, value |-> "none",
     updated |-> FALSE, retry |-> FALSE, saving |-> <<>>]

\* one more call of a handler: 0, 1, or 2 for "twice or more"
OnceMore(n) == IF n < 2 THEN n + 1 ELSE n

\* no handler called yet
NotInvoked == [h \in Range(Handlers) |-> 0]

\* two processes that call start under the same job name
Procs == {"p1", "p2"}
\* a process that has not called start
NotStarted == [pc |-> "idle", existing |-> <<>>, batch |-> 0]

\* categorizer OfflineCategorizer over a state file that does not exist:
\* `self._jobs = self._load_state()` leaves the empty list
NoStateFile == [exists |-> FALSE, jobs |-> <<>>]
NoCategorizer == [jobs |-> <<>>, file |-> NoStateFile]

\* no submitter called yet
NoUpload == [by |-> "none", payload |-> <<>>, batch_size |-> 0, outcome |-> "none", files |-> <<>>]

Init ==
    /\ store = [j \in Jobs |-> <<>>]
    /\ sbmSchema = "unconstructed"
    /\ sbmStore = [j \in Jobs |-> <<>>]
    /\ remote = <<>>
    /\ nextBatch = 0
    /\ submitted = [c \in Classes |-> [j \in Jobs |-> 0]]
    /\ expect = [j \in Jobs |-> {}]
    /\ upload = NoUpload
    /\ damaged = [c \in Classes |-> [j \in Jobs |-> "no"]]
    /\ invoked = [j \in Jobs |-> NotInvoked]
    /\ race = [p \in Procs |-> NotStarted]
    /\ cat = NoCategorizer
    /\ last = NoCall

\* ----------------------------------------------------------- the state file
\* _load_state: `if state_file.exists(): ... return json.load(f)` with no
\* try/except; json.load raises on a file that is empty or holds part of a
\* JSON text
LoadStateRaises(cls, j) == damaged[cls][j] # "no"

\* faulty variant of SaveState: the records are added to those in the file
SaveStateAppend(file, jobs) == file \o jobs
\* _save_state: `with open(state_file, "w") as f: json.dump(jobs, f)`: the
\* file is replaced by the list given, whatever it held
SaveState(file, jobs) == jobs

\* ------------------------------------------------------- the remote service
\* batches.create: a new batch over the uploaded task file
NewBatch(ids) == [status |-> "validating", tasks |-> ids, outcome |-> <<>>, errFile |-> FALSE]

\* batch_job.to_dict() of the batch just created: what start persists
BatchMeta(b) == [id |-> b, status |-> "validating", output_file_id |-> NoFile, error_file_id |-> NoFile]

\* batches.retrieve(batch_id)
Retrieve(b) ==
    IF b \in DOMAIN remote THEN remote[b]
    ELSE [status |-> "unknown", tasks |-> <<>>, outcome |-> <<>>, errFile |-> FALSE]

\* info.output_file_id: set once the batch is completed and a request succeeded
OutputFileId(b, info) ==
    IF info.status = "completed" /\ \E i \in DOMAIN info.outcome : info.outcome[i] \in {"ok", "bad"}
    THEN OutFile(b) ELSE NoFile

\* info.error_file_id: set when a request of a completed batch failed, or
\* when a failed/cancelled batch comes with an error file
ErrorFileId(b, info) ==
    IF \/ info.status = "completed" /\ \E i \in DOMAIN info.outcome : info.outcome[i] = "err"
       \/ info.status \in {"failed", "cancelled"} /\ info.errFile
    THEN ErrFile(b) ELSE NoFile

\* files.content(output_file_id).text: one line per request that got a response
OutputLines(info) ==
    SelectSeq([i \in DOMAIN info.outcome |-> [custom_id |-> info.tasks[i], kind |-> info.outcome[i]]],
              LAMBDA e : e.kind \in {"ok", "bad"})

\* the remote validates the batch and starts running it
RemoteRun(b) ==
    /\ remote[b].status = "validating"
    /\ remote' = [remote EXCEPT ![b].status = "in_progress"]
    /\ last' = NoCall
    /\ UNCHANGED <<race, cat, upload, damaged, invoked, store, sbmSchema, sbmStore, nextBatch, submitted, expect>>

\* the batch completes: every task ends in the output file or the error file
RemoteComplete(b, outcome) ==
    /\ remote[b].status = "in_progress"
    /\ remote' = [remote EXCEPT ![b].status = "completed", ![b].outcome = outcome]
    /\ last' = NoCall
    /\ UNCHANGED <<race, cat, upload, damaged, invoked, store, sbmSchema, sbmStore, nextBatch, submitted, expect>>

\* the batch fails validation, fails, is cancelled (from outside) or expires
RemoteEnd(b, status, errFile) ==
    /\ remote[b].status \in {"validating", "in_progress"}
    /\ status = "expired" => ~errFile
    /\ remote' = [remote EXCEPT ![b].status = status, ![b].errFile = errFile]
    /\ last' = NoCall
    /\ UNCHANGED <<race, cat, upload, damaged, invoked, store, sbmSchema, sbmStore, nextBatch, submitted, expect>>

\* ------------------------------------------------------------------- start
\* OfflineQuestionDetector._prepare_upload_file: custom_id = str(i) for
\* i, text in enumerate(payload); over a mapping enumerate yields its keys
PrepareUploadFile(payload) == [i \in DOMAIN payload.items |-> Str(i - 1)]

\* enumerate(payload) raises TypeError on a payload that is not iterable
PrepareUploadFileRaises(payload) == payload.kind = "other"

\* faulty variant of StartResumes: the early return is missing
StartNeverResumes(existing) == FALSE
\* `if existing: ... return`
StartResumes(existing) == existing # <<>>

\* how far start gets: "resumed" (early return), the step that raised
\* ("prepare", "upload", "create"), or "saved" (ran to the end)
StartStage(existing, prepRaises, fault) ==
    IF StartResumes(existing) THEN "resumed"
    ELSE IF prepRaises \/ fault = "prepare" THEN "prepare"
    ELSE IF fault \in {"upload", "create"} THEN fault
    ELSE "saved"

\* the operations start performed, in order
StartTrace(stage) ==
    CASE stage = "resumed" -> <<>>
      [] stage = "prepare" -> <<"prepare">>
      [] stage = "upload" -> <<"prepare", "upload">>
      [] stage = "create" -> <<"prepare", "upload", "create">>
      [] OTHER -> <<"prepare", "upload", "create", "save">>

\* faulty variant of StartRecords: the record is written before the upload
StartRecordsSaveFirst(existing, stage, b) ==
    IF stage = "resumed" THEN existing
    ELSE IF stage = "prepare" THEN existing
    ELSE <<BatchMeta(b)>>
\* the job's records after start: _save_state(job_name, [batch_meta]) is the
\* last statement, reached only when nothing raised
StartRecords(existing, stage, b) ==
    IF stage = "saved" THEN <<BatchMeta(b)>> ELSE existing

\* one representative of the inputs a call never reads: a start that resumes
\* reads neither payload nor fault, one that raises ignores what the payload
\* would have become
StartInputsMatter(stage, payload, fault) ==
    /\ stage = "resumed" => fault = "none" /\ payload = OtherPayload
    /\ stage \in {"upload", "create"} => payload = [kind |-> "list", items |-> <<>>]
    /\ stage = "prepare" /\ fault = "prepare" => payload = [kind |-> "list", items |-> <<>>]
    /\ stage = "prepare" /\ fault # "prepare" => fault = "none"

StartCall(cls, j, existing, stage) ==
    [NoCall EXCEPT !.cls = cls, !.op = "start", !.job = j, !.pre = existing,
                   !.outcome = IF stage \in {"resumed", "saved"} THEN "return" ELSE "raise",
                   !.exc = IF stage \in {"resumed", "saved"} THEN "none"
                           ELSE IF stage = "prepare" THEN "TypeError" ELSE "APIError",
                   !.trace = StartTrace(stage), !.value = stage,
                   \* history: the call before this one was a start of the
                   \* same object on the same job name, and it raised
                   !.retry = /\ last.op = "start" /\ last.cls = cls
                             /\ last.job = j /\ last.outcome = "raise"]

\* OfflineBatchProcessor.start(payload, job_name)
Start(j, payload, fault) ==
    LET existing == store[j]
        stage == StartStage(existing, PrepareUploadFileRaises(payload), fault)
        b == nextBatch + 1
        ids == PrepareUploadFile(payload)
    IN /\ ~LoadStateRaises("obp", j)
       /\ StartInputsMatter(stage, payload, fault)
       /\ stage = "saved" => nextBatch < MaxBatches
       /\ store' = [store EXCEPT ![j] = StartRecords(existing, stage, b)]
       /\ remote' = IF stage = "saved" THEN (b :> NewBatch(ids)) @@ remote ELSE remote
       /\ nextBatch' = IF stage = "saved" THEN b ELSE nextBatch
       /\ submitted' = IF stage = "saved"
                         THEN [submitted EXCEPT !["obp"][j] = @ + 1] ELSE submitted
       /\ expect' = IF stage = "saved"
                      THEN [expect EXCEPT ![j] = IF payload.kind = "mapping"
                                                  THEN Range(payload.items) ELSE Range(ids)]
                      ELSE expect
       /\ invoked' = IF stage = "saved" THEN [invoked EXCEPT ![j] = NotInvoked] ELSE invoked
       /\ last' = StartCall("obp", j, existing, stage)
       /\ UNCHANGED <<race, cat, upload, damaged, sbmSchema, sbmStore>>

\* ------------------------------------------------------ SimpleBatchManager
\* values a caller may pass as custom_json_schema_obj_str: the default None,
\* a dict value, the type dict itself, a string
SchemaArgs == {"None", "dict_value", "dict_type", "str"}

\* __init__: `if self.custom_json_schema_obj_str is not dict: raise ValueError`
\* compares the argument with the type dict by identity
ConstructorAccepts(schema) == schema = "dict_type"

\* SimpleBatchManager(..., custom_json_schema_obj_str=schema)
SBMConstruct(schema) ==
    /\ sbmSchema = "unconstructed"
    /\ sbmSchema' = IF ConstructorAccepts(schema) THEN schema ELSE sbmSchema
    /\ last' = [NoCall EXCEPT !.cls = "sbm", !.op = "init", !.value = schema,
                               !.outcome = IF ConstructorAccepts(schema) THEN "return" ELSE "raise",
                               !.exc = IF ConstructorAccepts(schema) THEN "none" ELSE "ValueError"]
    /\ UNCHANGED <<race, cat, upload, damaged, invoked, store, sbmStore, remote, nextBatch, submitted, expect>>

\* uuid.uuid4().hex: a fresh token per list item
Uuids == <<"u1", "u2", "u3", "u4", "u5", "u6", "u7", "u8">>

\* _prepare_file: the custom ids of the tasks, str(idx) with idx a fresh
\* uuid (list payload) or the caller's key (mapping payload)
SBMPrepareFile(payload) ==
    IF payload.kind = "list" THEN [i \in DOMAIN payload.items |-> Uuids[i]]
    ELSE payload.items

\* _prepare_file raises TypeError on a payload that is neither list nor dict,
\* and json.dumps(task) raises TypeError when the task's json_schema is not a
\* JSON value: _build_task puts custom_json_schema_obj_str there when truthy
SBMPrepareFileRaises(schema, payload) ==
    \/ payload.kind = "other"
    \/ payload.items # <<>> /\ schema \in {"dict_type"}

\* SimpleBatchManager.start(payload, job_name)
SBMStart(j, payload, fault) ==
    LET existing == sbmStore[j]
        stage == StartStage(existing, SBMPrepareFileRaises(sbmSchema, payload), fault)
        b == nextBatch + 1
    IN /\ sbmSchema # "unconstructed"
       /\ ~LoadStateRaises("sbm", j)
       /\ StartInputsMatter(stage, payload, fault)
       /\ stage = "saved" => nextBatch < MaxBatches
       /\ sbmStore' = [sbmStore EXCEPT ![j] = StartRecords(existing, stage, b)]
       /\ remote' = IF stage = "saved" THEN (b :> NewBatch(SBMPrepareFile(payload))) @@ remote
                     ELSE remote
       /\ nextBatch' = IF stage = "saved" THEN b ELSE nextBatch
       /\ submitted' = IF stage = "saved"
                         THEN [submitted EXCEPT !["sbm"][j] = @ + 1] ELSE submitted
       /\ last' = StartCall("sbm", j, existing, stage)
       /\ UNCHANGED <<race, cat, upload, damaged, invoked, store, sbmSchema, expect>>

\* ------------------------------------------------- check_status, is_ready
\* faulty variant of MapStatus: a failed or cancelled batch raises, as it
\* does in fetch_results
MapStatusRaising(status) ==
    IF status \in {"failed", "cancelled"} THEN "raise"
    ELSE IF status # "completed" THEN "in_progress" ELSE "completed"
\* the loop body of check_status on one record's remote status
MapStatus(status) ==
    IF status \in {"failed", "cancelled"} THEN status
    ELSE IF status # "completed" THEN "in_progress" ELSE "completed"

\* check_status over the job's records: the first record that is not
\* completed decides; "completed" when there is none
RECURSIVE CheckStatusOf(_)
CheckStatusOf(jobs) ==
    IF jobs = <<>> THEN "completed"
    ELSE LET s == MapStatus(Retrieve(Head(jobs).id).status)
         IN IF s # "completed" THEN s ELSE CheckStatusOf(Tail(jobs))

StatusCall(op, j, jobs, value) ==
    [NoCall EXCEPT !.cls = "obp", !.op = op, !.job = j, !.pre = jobs,
                   !.outcome = IF value = "raise" THEN "raise" ELSE "return",
                   !.exc = IF value = "raise" THEN "RuntimeError" ELSE "none",
                   !.trace = IF jobs = <<>> THEN <<>> ELSE <<"retrieve">>,
                   !.value = value]

\* OfflineBatchProcessor.check_status(job_name)
CheckStatus(j) ==
    /\ ~LoadStateRaises("obp", j)
    /\ last' = StatusCall("check_status", j, store[j], CheckStatusOf(store[j]))
    /\ UNCHANGED <<race, cat, upload, damaged, invoked, store, sbmSchema, sbmStore, remote, nextBatch, submitted, expect>>

\* OfflineBatchProcessor.is_ready(job_name)
IsReadyOf(jobs) ==
    LET s == CheckStatusOf(jobs)
    IN IF s = "raise" THEN "raise" ELSE IF s = "completed" THEN "True" ELSE "False"

IsReady(j) ==
    /\ ~LoadStateRaises("obp", j)
    /\ last' = StatusCall("is_ready", j, store[j], IsReadyOf(store[j]))
    /\ UNCHANGED <<race, cat, upload, damaged, invoked, store, sbmSchema, sbmStore, remote, nextBatch, submitted, expect>>

\* ------------------------------------------------------------ fetch_results
\* where an environment fault makes a download (files.content) raise
DownloadFaults == {"none", "out", "err"}

\* `for line in txt.splitlines(): ... cid, parsed = self._parse_entry(entry);
\* all_results[cid] = parsed`: OfflineQuestionDetector._parse_entry raises on an
\* entry it cannot read, and nothing catches it
RECURSIVE ParseLines(_, _)
ParseLines(lines, acc) ==
    IF lines = <<>> THEN acc
    ELSE IF Head(lines).kind = "bad" THEN [acc EXCEPT !.exc = "ValueError"]
    ELSE ParseLines(Tail(lines),
                    [acc EXCEPT !.results = (Head(lines).custom_id :> TRUE) @@ acc.results])

\* step 2 of the loop body: download and parse the output file
DownloadSuccesses(out, acc, dlFail) ==
    IF out = NoFile THEN acc
    ELSE LET a == [acc EXCEPT !.trace = Append(@, "download_out")]
         IN IF dlFail = "out" THEN [a EXCEPT !.exc = "APIError"]
            ELSE ParseLines(OutputLines(Retrieve(out.batch)), a)

\* step 3 of the loop body: download the error file; binds err_txt
DownloadFailures(err, acc, dlFail) ==
    IF err = NoFile \/ acc.exc # "none" THEN acc
    ELSE LET a == [acc EXCEPT !.trace = Append(@, "download_err")]
         IN IF dlFail = "err" THEN [a EXCEPT !.exc = "APIError"]
            ELSE [a EXCEPT !.errBound = TRUE]

Downloads(out, err, acc, dlFail) ==
    DownloadFailures(err, DownloadSuccesses(out, acc, dlFail), dlFail)

\* the loop body of fetch_results for one record; acc.jobs collects the
\* records as the loop leaves them (job[...] = ... mutates them in place)
ProcessJob(job, acc, dlFail) ==
    LET cachedOut == job.output_file_id
        cachedErr == job.error_file_id
        info == Retrieve(job.id)
        keep == [acc EXCEPT !.jobs = Append(@, job)]
    IN IF cachedOut # NoFile \/ cachedErr # NoFile
       THEN Downloads(cachedOut, cachedErr, keep, dlFail)
       ELSE LET seen == [keep EXCEPT !.trace = Append(@, "retrieve")]
                failed == info.status \in {"failed", "cancelled"}
                err == IF failed THEN ErrorFileId(job.id, info) ELSE cachedErr
                out == IF info.status = "completed" THEN OutputFileId(job.id, info) ELSE cachedOut
                found == [acc EXCEPT !.trace = Append(@, "retrieve"), !.updated = TRUE,
                                     !.jobs = Append(@, [job EXCEPT !.output_file_id = out,
                                                                    !.error_file_id = err])]
            IN IF failed /\ err = NoFile THEN [seen EXCEPT !.exc = "RuntimeError"]
               ELSE IF ~failed /\ info.status # "completed" THEN seen
               ELSE Downloads(out, err, found, dlFail)

RECURSIVE FetchLoop(_, _, _)
FetchLoop(jobs, acc, dlFail) ==
    IF jobs = <<>> \/ acc.exc # "none" THEN acc
    ELSE FetchLoop(Tail(jobs), ProcessJob(Head(jobs), acc, dlFail), dlFail)

\* _dispatch: `for handler in self.handlers: handler.handle(results)`; the
\* handlers invoked, in order, when those in `raising` raise
RECURSIVE DispatchInvoked(_, _)
DispatchInvoked(hs, raising) ==
    IF hs = <<>> THEN <<>>
    ELSE IF Head(hs) \in raising THEN <<Head(hs)>>
    ELSE <<Head(hs)>> \o DispatchInvoked(Tail(hs), raising)

\* faulty variant of DispatchRaises: a handler's exception is swallowed
DispatchNeverRaises(hs, raising) == FALSE
DispatchRaises(hs, raising) == \E i \in DOMAIN hs : hs[i] \in raising

\* faulty variant of FetchOn: the record is deleted whatever was fetched
FetchOnAlwaysClears(j, jobs, dlFail, raising) ==
    [records |-> <<>>, cleared |-> TRUE,
     call |-> [NoCall EXCEPT !.cls = "obp", !.op = "fetch_results", !.job = j, !.pre = jobs,
                             !.outcome = "return", !.value = "results_errors",
                             !.trace = <<"clear">>]]
\* fetch_results on the records `jobs` (non-empty): the records left in the
\* store and the call's report
FetchOn(j, jobs, dlFail, raising) ==
    LET acc0 == [jobs |-> <<>>, results |-> <<>>, errBound |-> FALSE, updated |-> FALSE,
                 trace |-> <<>>, exc |-> "none"]
        loop == FetchLoop(jobs, acc0, dlFail)
        looped == loop.exc = "none"
        saved == looped /\ loop.updated
        dispatched == looped /\ loop.results # <<>>
        handlerRaised == dispatched /\ DispatchRaises(Handlers, raising)
        cleared == dispatched /\ ~handlerRaised
        exc == IF ~looped THEN loop.exc
               ELSE IF handlerRaised THEN "HandlerError"
               ELSE IF ~loop.errBound THEN "UnboundLocalError"
               ELSE "none"
    IN [records |-> IF cleared THEN <<>> ELSE IF saved THEN loop.jobs ELSE jobs,
        cleared |-> cleared,
        call |-> [NoCall EXCEPT
            !.cls = "obp", !.op = "fetch_results", !.job = j, !.pre = jobs,
            !.outcome = IF exc = "none" THEN "return" ELSE "raise",
            !.exc = exc,
            !.trace = loop.trace \o (IF saved THEN <<"save">> ELSE <<>>)
                                 \o (IF dispatched THEN <<"dispatch">> ELSE <<>>)
                                 \o (IF cleared THEN <<"clear">> ELSE <<>>),
            !.handled = IF dispatched THEN DispatchInvoked(Handlers, raising) ELSE <<>>,
            !.results = loop.results,
            !.updated = loop.updated,
            !.value = IF exc = "none" THEN "results_errors" ELSE "none"]]

\* faulty variant of FetchNothing: the first record is read without looking
\* whether there is one, as SimpleBatchManager.fetch_results does
FetchNothingIndexError(j) ==
    [records |-> <<>>, cleared |-> FALSE,
     call |-> [NoCall EXCEPT !.cls = "obp", !.op = "fetch_results", !.job = j,
                             !.outcome = "raise", !.exc = "IndexError"]]
\* `if not jobs: ... return {}`
FetchNothing(j) ==
    [records |-> <<>>, cleared |-> FALSE,
     call |-> [NoCall EXCEPT !.cls = "obp", !.op = "fetch_results", !.job = j,
                             !.outcome = "return", !.value = "{}"]]

\* OfflineBatchProcessor.fetch_results(job_name)
FetchResults(j, dlFail, raising) ==
    LET jobs == store[j]
        r == IF jobs = <<>> THEN FetchNothing(j) ELSE FetchOn(j, jobs, dlFail, raising)
        attempted == Range(r.call.trace)
    IN /\ ~LoadStateRaises("obp", j)
       \* one representative of the faults the call never meets
       /\ dlFail = "out" => "download_out" \in attempted
       /\ dlFail = "err" => "download_err" \in attempted
       /\ raising # {} => "dispatch" \in attempted
       /\ store' = [store EXCEPT ![j] = r.records]
       \* a batch no record names any more is out of every call's reach
       /\ remote' = IF r.cleared
                     THEN [b \in DOMAIN remote \ {jobs[i].id : i \in DOMAIN jobs} |-> remote[b]]
                     ELSE remote
       /\ submitted' = [submitted EXCEPT !["obp"][j] = 0]
       /\ invoked' = [invoked EXCEPT ![j] = [h \in Range(Handlers) |->
                          IF h \in Range(r.call.handled) THEN OnceMore(@[h]) ELSE @[h]]]
       /\ last' = r.call
       /\ UNCHANGED <<race, cat, upload, damaged, sbmSchema, sbmStore, nextBatch, expect>>

\* ------------------------------- SimpleBatchManager: check_status, fetch_results
\* info.to_dict() of the batch retrieved
ToDict(b, info) ==
    [id |-> b, status |-> info.status, output_file_id |-> OutputFileId(b, info),
     error_file_id |-> ErrorFileId(b, info)]

\* SimpleBatchManager.check_status(job_name): `job = self._load_state(job_name)[0]`
\* raises IndexError on the empty list; otherwise the batch is retrieved,
\* written back as the record, and its status returned
SBMCheckStatus(j) ==
    LET jobs == sbmStore[j]
        info == Retrieve(jobs[1].id)
    IN /\ sbmSchema # "unconstructed"
       /\ ~LoadStateRaises("sbm", j)
       /\ sbmStore' = IF jobs = <<>> THEN sbmStore
                       ELSE [sbmStore EXCEPT ![j] = <<ToDict(jobs[1].id, info)>>]
       /\ last' = IF jobs = <<>>
                   THEN [NoCall EXCEPT !.cls = "sbm", !.op = "check_status", !.job = j,
                                       !.outcome = "raise", !.exc = "IndexError"]
                   ELSE [NoCall EXCEPT !.cls = "sbm", !.op = "check_status", !.job = j,
                                       !.pre = jobs, !.outcome = "return",
                                       !.trace = <<"retrieve", "save">>, !.updated = TRUE,
                                       !.value = info.status]
       /\ UNCHANGED <<race, cat, upload, damaged, invoked, store, sbmSchema, remote, nextBatch, submitted, expect>>

\* faulty variant of SBMParseLines: a line it cannot read gets no entry
SBMParseLinesSkipping(lines) ==
    [c \in {lines[i].custom_id : i \in {k \in DOMAIN lines : lines[k].kind = "ok"}} |-> TRUE]
\* the results map of SimpleBatchManager.fetch_results: an entry per line,
\* the parsed model for a line it can read (TRUE), an {"error": ...} entry
\* for one it cannot (FALSE); `results[custom_id] = ...` keeps the later of
\* two lines with one custom_id
RECURSIVE SBMParseLines(_)
SBMParseLines(lines) ==
    IF lines = <<>> THEN <<>>
    ELSE SBMParseLines(Tail(lines)) @@ (Head(lines).custom_id :> (Head(lines).kind = "ok"))

\* SimpleBatchManager.fetch_results on the record `job`
SBMFetchOn(j, job, dlFail, raising) ==
    LET info == Retrieve(job.id)
        out == OutputFileId(job.id, info)
        err == ErrorFileId(job.id, info)
        call == [NoCall EXCEPT !.cls = "sbm", !.op = "fetch_results", !.job = j, !.pre = <<job>>]
        raised(c, e) == [c EXCEPT !.outcome = "raise", !.exc = e]
    IN IF out = NoFile
       THEN [cleared |-> FALSE,
             call |-> IF err = NoFile
                      THEN [call EXCEPT !.trace = <<"retrieve">>, !.outcome = "return", !.value = "{}"]
                      ELSE IF dlFail = "err"
                      THEN raised([call EXCEPT !.trace = <<"retrieve", "download_err">>], "APIError")
                      ELSE [call EXCEPT !.trace = <<"retrieve", "download_err">>,
                                        !.outcome = "return", !.value = "{}"]]
       ELSE IF dlFail = "out"
       THEN [cleared |-> FALSE,
             call |-> raised([call EXCEPT !.trace = <<"retrieve", "download_out">>], "APIError")]
       ELSE LET results == SBMParseLines(OutputLines(info))
                handled == [call EXCEPT !.trace = <<"retrieve", "download_out", "dispatch">>,
                                        !.results = results,
                                        !.handled = DispatchInvoked(Handlers, raising)]
            IN IF DispatchRaises(Handlers, raising)
               THEN [cleared |-> FALSE, call |-> raised(handled, "HandlerError")]
               ELSE [cleared |-> TRUE,
                     call |-> [handled EXCEPT !.trace = Append(@, "clear"),
                                              !.outcome = "return", !.value = "results"]]

\* SimpleBatchManager.fetch_results(job_name): `self._load_state(job_name)[0]`
\* raises IndexError on the empty list
SBMFetchResults(j, dlFail, raising) ==
    LET jobs == sbmStore[j]
        r == IF jobs = <<>>
             THEN [cleared |-> FALSE,
                   call |-> [NoCall EXCEPT !.cls = "sbm", !.op = "fetch_results", !.job = j,
                                           !.outcome = "raise", !.exc = "IndexError"]]
             ELSE SBMFetchOn(j, jobs[1], dlFail, raising)
        attempted == Range(r.call.trace)
    IN /\ sbmSchema # "unconstructed"
       /\ ~LoadStateRaises("sbm", j)
       /\ dlFail = "out" => "download_out" \in attempted
       /\ dlFail = "err" => "download_err" \in attempted
       /\ raising # {} => "dispatch" \in attempted
       /\ sbmStore' = IF r.cleared THEN [sbmStore EXCEPT ![j] = <<>>] ELSE sbmStore
       /\ remote' = IF r.cleared THEN [b \in DOMAIN remote \ {jobs[1].id} |-> remote[b]]
                     ELSE remote
       /\ submitted' = [submitted EXCEPT !["sbm"][j] = 0]
       /\ last' = r.call
       /\ UNCHANGED <<race, cat, upload, damaged, invoked, store, sbmSchema, nextBatch, expect>>

\* ------------------------------------------------------------------ detect
\* job_name = f"qd_{uuid.uuid4().hex}": a name no other call has used
QdName(b) == "qd_" \o Str(b)

\* OfflineQuestionDetector.detect(text): start([text], job_name) under a fresh
\* name, then `while not self.is_ready():`, which raises TypeError because
\* is_ready takes the job name; the polling loop, fetch_results() and the
\* _dispatch that follow are never reached
Detect(text, fault) ==
    LET b == nextBatch + 1
        name == QdName(b)
        payload == [kind |-> "list", items |-> <<text>>]
        stage == StartStage(<<>>, PrepareUploadFileRaises(payload), fault)
    IN /\ nextBatch < MaxBatches
       /\ store' = IF stage = "saved" THEN (name :> StartRecords(<<>>, stage, b)) @@ store
                    ELSE store
       /\ remote' = IF stage = "saved" THEN (b :> NewBatch(PrepareUploadFile(payload))) @@ remote
                     ELSE remote
       /\ nextBatch' = IF stage = "saved" THEN b ELSE nextBatch
       /\ invoked' = IF stage = "saved" THEN (name :> NotInvoked) @@ invoked ELSE invoked
       /\ last' = [NoCall EXCEPT !.cls = "obp", !.op = "detect", !.job = name,
                                  !.outcome = "raise",
                                  !.exc = IF stage = "saved" THEN "TypeError"
                                          ELSE IF stage = "prepare" THEN "OSError" ELSE "APIError",
                                  !.trace = StartTrace(stage), !.value = stage]
       /\ UNCHANGED <<race, cat, upload, damaged, sbmSchema, sbmStore, submitted, expect>>

\* ------------------------------------------- unreadable files and crashes
\* the public methods that begin with _load_state
Methods(cls) ==
    IF cls = "obp" THEN {"start", "check_status", "is_ready", "fetch_results"}
    ELSE {"start", "check_status", "fetch_results"}

\* a public method called on a job name whose state file is unreadable:
\* _load_state is its first statement and the exception leaves the method
CallOnDamaged(cls, op, j) ==
    /\ cls = "sbm" => sbmSchema # "unconstructed"
    /\ LoadStateRaises(cls, j)
    /\ last' = [NoCall EXCEPT !.cls = cls, !.op = op, !.job = j, !.outcome = "raise",
                               !.exc = "JSONDecodeError", !.trace = <<"load">>]
    /\ UNCHANGED <<race, cat, store, sbmSchema, sbmStore, remote, nextBatch, submitted, expect,
                   upload, damaged, invoked>>

\* what is on disk when the process dies inside _save_state: the old file
\* (before `open(state_file, "w")`), an empty file (open has truncated it,
\* nothing flushed), part of the JSON text, or the whole new text
CrashPoints == {"before_open", "empty", "partial", "written"}

\* _save_state(job_name, new) over the file holding `old`, cut at `point`:
\* the records a later _load_state can read, and the damage
SaveStateCut(old, new, point) ==
    [records |-> IF point = "before_open" THEN old
                 ELSE IF point = "written" THEN new ELSE <<>>,
     damage |-> IF point \in {"empty", "partial"} THEN "unreadable" ELSE "no"]

CrashCall(cls, op, j, old, new, trace) ==
    [NoCall EXCEPT !.cls = cls, !.op = op, !.job = j, !.outcome = "crash",
                   !.pre = old, !.saving = new, !.trace = trace]

\* start dies inside its _save_state: the batch exists at the remote
StartCrash(j, payload, point) ==
    LET existing == store[j]
        stage == StartStage(existing, PrepareUploadFileRaises(payload), "none")
        b == nextBatch + 1
        ids == PrepareUploadFile(payload)
        cut == SaveStateCut(existing, StartRecords(existing, stage, b), point)
    IN /\ ~LoadStateRaises("obp", j)
       /\ stage = "saved" /\ nextBatch < MaxBatches
       \* one representative of the payloads whose batch no record will name
       /\ point # "written" => payload = [kind |-> "list", items |-> <<>>]
       /\ store' = [store EXCEPT ![j] = cut.records]
       /\ damaged' = [damaged EXCEPT !["obp"][j] = cut.damage]
       \* a batch no record names is out of every call's reach
       /\ remote' = IF point = "written" THEN (b :> NewBatch(ids)) @@ remote ELSE remote
       /\ nextBatch' = b
       /\ submitted' = [submitted EXCEPT !["obp"][j] = @ + 1]
       /\ expect' = IF point = "written"
                      THEN [expect EXCEPT ![j] = IF payload.kind = "mapping"
                                                  THEN Range(payload.items) ELSE Range(ids)]
                      ELSE expect
       /\ invoked' = IF point = "written" THEN [invoked EXCEPT ![j] = NotInvoked] ELSE invoked
       /\ last' = CrashCall("obp", "start", j, existing, StartRecords(existing, stage, b),
                            StartTrace(stage))
       /\ UNCHANGED <<race, cat, upload, sbmSchema, sbmStore>>

\* the records fetch_results hands to _save_state when its downloads succeed
SavedByFetch(j, jobs) ==
    FetchLoop(jobs, [jobs |-> <<>>, results |-> <<>>, errBound |-> FALSE, updated |-> FALSE,
                     trace |-> <<>>, exc |-> "none"], "none").jobs

\* fetch_results dies inside `if updated: self._save_state(job_name, jobs)`,
\* before any dispatch
FetchResultsCrash(j, point) ==
    LET jobs == store[j]
        r == FetchOn(j, jobs, "none", {})
        cut == SaveStateCut(jobs, SavedByFetch(j, jobs), point)
    IN /\ ~LoadStateRaises("obp", j)
       /\ jobs # <<>>
       /\ "save" \in Range(r.call.trace)
       /\ store' = [store EXCEPT ![j] = cut.records]
       /\ damaged' = [damaged EXCEPT !["obp"][j] = cut.damage]
       /\ remote' = IF cut.records = <<>>
                     THEN [b \in DOMAIN remote \ {jobs[i].id : i \in DOMAIN jobs} |-> remote[b]]
                     ELSE remote
       /\ last' = CrashCall("obp", "fetch_results", j, jobs, SavedByFetch(j, jobs),
                            SelectSeq(r.call.trace, LAMBDA e : e \notin {"dispatch", "clear"}))
       /\ UNCHANGED <<race, cat, upload, invoked, sbmSchema, sbmStore, nextBatch, submitted, expect>>

\* SimpleBatchManager.start dies inside its _save_state
SBMStartCrash(j, payload, point) ==
    LET existing == sbmStore[j]
        stage == StartStage(existing, SBMPrepareFileRaises(sbmSchema, payload), "none")
        b == nextBatch + 1
        cut == SaveStateCut(existing, StartRecords(existing, stage, b), point)
    IN /\ sbmSchema # "unconstructed"
       /\ ~LoadStateRaises("sbm", j)
       /\ stage = "saved" /\ nextBatch < MaxBatches
       /\ sbmStore' = [sbmStore EXCEPT ![j] = cut.records]
       /\ damaged' = [damaged EXCEPT !["sbm"][j] = cut.damage]
       /\ remote' = IF point = "written" THEN (b :> NewBatch(SBMPrepareFile(payload))) @@ remote
                     ELSE remote
       /\ nextBatch' = b
       /\ submitted' = [submitted EXCEPT !["sbm"][j] = @ + 1]
       /\ last' = CrashCall("sbm", "start", j, existing, StartRecords(existing, stage, b),
                            StartTrace(stage))
       /\ UNCHANGED <<race, cat, upload, invoked, store, sbmSchema, expect>>

\* SimpleBatchManager.check_status dies inside `self._save_state(job_name, [job])`
SBMCheckStatusCrash(j, point) ==
    LET jobs == sbmStore[j]
        new == <<ToDict(jobs[1].id, Retrieve(jobs[1].id))>>
        cut == SaveStateCut(jobs, new, point)
    IN /\ sbmSchema # "unconstructed"
       /\ ~LoadStateRaises("sbm", j)
       /\ jobs # <<>>
       /\ sbmStore' = [sbmStore EXCEPT ![j] = cut.records]
       /\ damaged' = [damaged EXCEPT !["sbm"][j] = cut.damage]
       /\ remote' = IF cut.records = <<>> THEN [b \in DOMAIN remote \ {jobs[1].id} |-> remote[b]]
                     ELSE remote
       /\ last' = CrashCall("sbm", "check_status", j, jobs, new, <<"retrieve", "save">>)
       /\ UNCHANGED <<race, cat, upload, invoked, store, sbmSchema, nextBatch, submitted, expect>>

Next ==
    \/ \E j \in Jobs, p \in Payloads, f \in StartFaults : Start(j, p, f)
    \/ \E a \in SchemaArgs : SBMConstruct(a)
    \/ \E j \in Jobs, p \in Payloads, f \in StartFaults : SBMStart(j, p, f)
    \/ \E j \in Jobs : CheckStatus(j)
    \/ \E j \in Jobs : IsReady(j)
    \/ \E j \in Jobs, d \in DownloadFaults, r \in SUBSET Range(Handlers) : FetchResults(j, d, r)
    \/ \E b \in DOMAIN remote : RemoteRun(b)
    \/ \E b \in DOMAIN remote : \E o \in [DOMAIN remote[b].tasks -> TaskOutcomes] : RemoteComplete(b, o)
    \/ \E b \in DOMAIN remote, s \in {"failed", "cancelled", "expired"}, e \in BOOLEAN : RemoteEnd(b, s, e)

Spec == Init /\ [][Next]_vars

\* the OfflineBatchProcessor with processes that die while saving, and the
\* calls that then meet the file left behind
NextCrash ==
    \/ \E j \in Jobs, p \in Payloads, f \in StartFaults : Start(j, p, f)
    \/ \E j \in Jobs : CheckStatus(j)
    \/ \E j \in Jobs : IsReady(j)
    \/ \E j \in Jobs, d \in DownloadFaults, r \in SUBSET Range(Handlers) : FetchResults(j, d, r)
    \/ \E j \in Jobs, p \in Payloads, c \in CrashPoints : StartCrash(j, p, c)
    \/ \E j \in Jobs, c \in CrashPoints : FetchResultsCrash(j, c)
    \/ \E j \in Jobs : \E op \in Methods("obp") : CallOnDamaged("obp", op, j)
    \/ \E b \in DOMAIN remote : RemoteRun(b)
    \/ \E b \in DOMAIN remote : \E o \in [DOMAIN remote[b].tasks -> TaskOutcomes] : RemoteComplete(b, o)
    \/ \E b \in DOMAIN remote, s \in {"failed", "cancelled", "expired"}, e \in BOOLEAN : RemoteEnd(b, s, e)

SpecCrash == Init /\ [][NextCrash]_vars

\* the OfflineQuestionDetector on its own, with detect
NextDetector ==
    \/ \E j \in Jobs, p \in Payloads, f \in StartFaults : Start(j, p, f)
    \/ \E t \in Texts, f \in StartFaults : Detect(t, f)
    \/ \E j \in Jobs : CheckStatus(j)
    \/ \E j \in Jobs : IsReady(j)
    \/ \E j \in Jobs, d \in DownloadFaults, r \in SUBSET Range(Handlers) : FetchResults(j, d, r)
    \/ \E b \in DOMAIN remote : RemoteRun(b)
    \/ \E b \in DOMAIN remote : \E o \in [DOMAIN remote[b].tasks -> TaskOutcomes] : RemoteComplete(b, o)
    \/ \E b \in DOMAIN remote, s \in {"failed", "cancelled", "expired"}, e \in BOOLEAN : RemoteEnd(b, s, e)

SpecDetector == Init /\ [][NextDetector]_vars

\* ------------------------------------------------------------- submitters
\* The four places that write a task file, each called on its own with a
\* payload; `upload` reports the custom_id values of every file written.
IdPayloads ==
    {[kind |-> "list", items |-> s] : s \in SeqsUpTo(Texts, MaxTexts)}
        \cup MappingPayloads \cup {OtherPayload}
\* batch_size of the categorizer OfflineCategorizer (a constructor argument)
BatchSizes == 1..MaxTexts

Uploaded(by, payload, bs, raises, files) ==
    [by |-> by, payload |-> payload, batch_size |-> bs,
     outcome |-> IF raises THEN "raise" ELSE "return",
     files |-> IF raises THEN <<>> ELSE files]

\* SimpleBatchManager._prepare_file(payload), on a constructed manager
SBMPrepareFileCall(payload) ==
    /\ upload' = Uploaded("SimpleBatchManager", payload, 0,
                          SBMPrepareFileRaises("dict_type", payload), <<SBMPrepareFile(payload)>>)
    /\ UNCHANGED <<race, cat, store, sbmSchema, sbmStore, remote, nextBatch, submitted, expect, damaged, invoked, last>>

\* OfflineQuestionDetector._prepare_upload_file(payload)
PrepareUploadFileCall(payload) ==
    /\ upload' = Uploaded("OfflineQuestionDetector", payload, 0,
                          PrepareUploadFileRaises(payload), <<PrepareUploadFile(payload)>>)
    /\ UNCHANGED <<race, cat, store, sbmSchema, sbmStore, remote, nextBatch, submitted, expect, damaged, invoked, last>>

\* texttools OfflineCategorizer._prepare_upload_file: `for text in payload:
\* record = {"custom_id": text, ...}`; iterating a mapping yields its keys
TCatPrepareUploadFile(payload) == payload.items

\* iterating a payload that is not iterable raises TypeError
TCatPrepareUploadFileRaises(payload) == payload.kind = "other"

TCatPrepareUploadFileCall(payload) ==
    /\ upload' = Uploaded("texttools.OfflineCategorizer", payload, 0,
                          TCatPrepareUploadFileRaises(payload), <<TCatPrepareUploadFile(payload)>>)
    /\ UNCHANGED <<race, cat, store, sbmSchema, sbmStore, remote, nextBatch, submitted, expect, damaged, invoked, last>>

\* categorizer OfflineCategorizer.start_process: chunks = [texts[i : i + batch_size]
\* for i in range(0, len(texts), batch_size)]; the number of chunks
CatChunks(n, bs) == (n + bs - 1) \div bs

\* cid = f"chunk{idx}_item{i}" for idx, chunk in enumerate(chunks), i, txt in
\* enumerate(chunk): one file per chunk
CatStartProcess(texts, bs) ==
    [c \in 1..CatChunks(Len(texts), bs) |->
        [i \in 1..(IF c * bs <= Len(texts) THEN bs ELSE Len(texts) - (c - 1) * bs) |->
            [chunk |-> c - 1, item |-> i - 1]]]

\* len(texts) raises TypeError on a payload without a length, and slicing a
\* non-empty mapping raises
CatStartProcessRaises(payload) ==
    \/ payload.kind = "other"
    \/ payload.kind = "mapping" /\ payload.items # <<>>

\* categorizer OfflineCategorizer.start_process(texts): the files it writes
\* (each is then uploaded and submitted as one batch)
CatStartProcessCall(payload, bs) ==
    /\ upload' = Uploaded("categorizer.OfflineCategorizer", payload, bs,
                          CatStartProcessRaises(payload), CatStartProcess(payload.items, bs))
    /\ UNCHANGED <<race, cat, store, sbmSchema, sbmStore, remote, nextBatch, submitted, expect, damaged, invoked, last>>

NextIds ==
    \/ \E p \in IdPayloads : SBMPrepareFileCall(p)
    \/ \E p \in IdPayloads : PrepareUploadFileCall(p)
    \/ \E p \in IdPayloads : TCatPrepareUploadFileCall(p)
    \/ \E p \in IdPayloads, bs \in BatchSizes : CatStartProcessCall(p, bs)

SpecIds == Init /\ [][NextIds]_vars

\* the SimpleBatchManager on its own, with all its public methods, with
\* processes that die while saving
NextSBM ==
    \/ \E a \in SchemaArgs : SBMConstruct(a)
    \/ \E j \in Jobs, p \in Payloads, f \in StartFaults : SBMStart(j, p, f)
    \/ \E j \in Jobs : SBMCheckStatus(j)
    \/ \E j \in Jobs, d \in DownloadFaults, r \in SUBSET Range(Handlers) : SBMFetchResults(j, d, r)
    \/ \E j \in Jobs, p \in Payloads, c \in CrashPoints : SBMStartCrash(j, p, c)
    \/ \E j \in Jobs, c \in CrashPoints : SBMCheckStatusCrash(j, c)
    \/ \E j \in Jobs : \E op \in Methods("sbm") : CallOnDamaged("sbm", op, j)
    \/ \E b \in DOMAIN remote : RemoteRun(b)
    \/ \E b \in DOMAIN remote : \E o \in [DOMAIN remote[b].tasks -> TaskOutcomes] : RemoteComplete(b, o)
    \/ \E b \in DOMAIN remote, s \in {"failed", "cancelled", "expired"}, e \in BOOLEAN : RemoteEnd(b, s, e)

SpecSBM == Init /\ [][NextSBM]_vars

\* ------------------------------------------- categorizer OfflineCategorizer
\* the record of one chunk: {"file_id": up.id, "batch_id": batch.id}
CatJob(b) == [file_id |-> b, batch_id |-> b]

\* cid = f"chunk{idx}_item{i}"
CatCid(e) == "chunk" \o Str(e.chunk) \o "_item" \o Str(e.item)

\* _load_state: the list in the state file, [] when there is no file
CatLoadState(file) == IF file.exists THEN file.jobs ELSE <<>>

\* faulty variant of CatSaveState: only the newest record is written
CatSaveStateLatest(jobs) == [exists |-> TRUE, jobs |-> <<jobs[Len(jobs)]>>]
\* _save_state: `self.state_file.write_text(json.dumps(self._jobs, indent=2))`
CatSaveState(jobs) == [exists |-> TRUE, jobs |-> jobs]

\* the loop of start_process after n chunks, the first of which became batch
\* `first`: `self._jobs.append(job); self._save_state()` once per chunk
RECURSIVE CatAfterChunks(_, _, _)
CatAfterChunks(c, first, n) ==
    IF n = 0 THEN c
    ELSE LET jobs == Append(CatAfterChunks(c, first, n - 1).jobs, CatJob(first + n - 1))
         IN [jobs |-> jobs, file |-> CatSaveState(jobs)]

\* the operations of n chunks, in order
CatTrace(n) == [i \in 1..(3 * n) |-> <<"upload", "create", "save">>[((i - 1) % 3) + 1]]

\* where start_process stops short: files.create raises, batches.create
\* raises, or the process dies there
CatFaults == {"none", "upload", "create", "crash"}

\* the requests of the batches 1..b, all of them the categorizer's
RECURSIVE CatTasks(_)
CatTasks(b) == IF b = 0 THEN 0 ELSE Len(Retrieve(b).tasks) + CatTasks(b - 1)

\* OfflineCategorizer.start_process(texts) on an instance with batch_size bs;
\* `at` is the chunk (from 1) the fault hits.  After a crash the list is the
\* one the next process loads (`self._jobs = self._load_state()`)
CatStartProcessOn(texts, bs, fault, at) ==
    LET files == CatStartProcess(texts, bs)
        done == IF fault = "none" THEN Len(files) ELSE at - 1
        after == CatAfterChunks(cat, nextBatch + 1, done)
        tail == CASE fault = "upload" -> <<"upload">>
                  [] fault = "create" -> <<"upload", "create">>
                  [] OTHER -> <<>>
    IN /\ fault = "none" => at = 1
       /\ fault # "none" => at \in 1..Len(files)
       /\ nextBatch + done <= MaxBatches
       /\ CatTasks(nextBatch) + (IF fault = "none" THEN Len(texts) ELSE done * bs) <= MaxItems
       /\ cat' = IF fault = "crash"
                  THEN [jobs |-> CatLoadState(after.file), file |-> after.file] ELSE after
       /\ remote' = [b \in (nextBatch + 1)..(nextBatch + done) |->
                        NewBatch([i \in DOMAIN files[b - nextBatch] |->
                                     CatCid(files[b - nextBatch][i])])] @@ remote
       /\ nextBatch' = nextBatch + done
       /\ last' = [NoCall EXCEPT !.cls = "cat", !.op = "start_process", !.pre = cat.jobs,
                                  !.outcome = CASE fault = "none" -> "return"
                                                [] fault = "crash" -> "crash"
                                                [] OTHER -> "raise",
                                  !.exc = IF fault \in {"upload", "create"} THEN "APIError"
                                          ELSE "none",
                                  !.trace = CatTrace(done) \o tail]
       /\ UNCHANGED <<race, store, sbmSchema, sbmStore, submitted, expect, upload, damaged, invoked>>

\* the first loop of check_status: the first job, in list order, that is not
\* completed decides: RuntimeError if it is failed or cancelled, None otherwise
RECURSIVE CatPoll(_)
CatPoll(jobs) ==
    IF jobs = <<>> THEN "completed"
    ELSE LET status == Retrieve(Head(jobs).batch_id).status
         IN IF status \in {"failed", "cancelled"} THEN "failed"
            ELSE IF status # "completed" THEN "pending"
            ELSE CatPoll(Tail(jobs))

\* `parsed = self._OutputModel.parse_obj(entry["response"]["body"])`, with no
\* try/except: a body that does not validate raises
RECURSIVE CatParseLines(_, _)
CatParseLines(lines, acc) ==
    IF lines = <<>> THEN acc
    ELSE IF Head(lines).kind = "bad" THEN [acc EXCEPT !.exc = "ValidationError"]
    ELSE CatParseLines(Tail(lines),
                       [acc EXCEPT !.results = (Head(lines).custom_id :> TRUE) @@ acc.results])

\* the second loop: per job, the output file is downloaded and parsed into
\* one map; files.content(None) raises for a batch without an output file
RECURSIVE CatCollect(_, _)
CatCollect(jobs, acc) ==
    IF jobs = <<>> \/ acc.exc # "none" THEN acc
    ELSE LET b == Head(jobs).batch_id
             info == Retrieve(b)
         IN IF OutputFileId(b, info) = NoFile THEN [acc EXCEPT !.exc = "ValueError"]
            ELSE CatCollect(Tail(jobs), CatParseLines(OutputLines(info), acc))

\* `self._dispatch(results)`: neither OfflineCategorizer nor the BaseCategorizer
\* it imports (..base) defines _dispatch, so the attribute lookup raises
CatDispatchRaises == TRUE

\* OfflineCategorizer.check_status()
CatCheckStatus ==
    LET jobs == cat.jobs
        poll == CatPoll(jobs)
        got == CatCollect(jobs, [exc |-> "none", results |-> <<>>])
        call == [NoCall EXCEPT !.cls = "cat", !.op = "check_status", !.pre = jobs]
        clears == jobs # <<>> /\ poll = "completed" /\ got.exc = "none" /\ ~CatDispatchRaises
    IN /\ last' = IF jobs = <<>> \/ poll = "pending"
                   THEN [call EXCEPT !.outcome = "return", !.value = "None",
                                     !.trace = IF jobs = <<>> THEN <<>> ELSE <<"retrieve">>]
                   ELSE IF poll = "failed"
                   THEN [call EXCEPT !.outcome = "raise", !.exc = "RuntimeError",
                                     !.trace = <<"retrieve">>]
                   ELSE IF got.exc # "none"
                   THEN [call EXCEPT !.outcome = "raise", !.exc = got.exc,
                                     !.trace = <<"retrieve", "download_out">>]
                   ELSE IF CatDispatchRaises
                   THEN [call EXCEPT !.outcome = "raise", !.exc = "AttributeError",
                                     !.results = got.results,
                                     !.trace = <<"retrieve", "download_out", "dispatch">>]
                   ELSE [call EXCEPT !.outcome = "return", !.value = "results",
                                     !.results = got.results,
                                     !.trace = <<"retrieve", "download_out", "dispatch", "clear">>]
       /\ cat' = IF clears THEN NoCategorizer ELSE cat
       /\ UNCHANGED <<race, store, sbmSchema, sbmStore, remote, nextBatch, submitted, expect,
                      upload, damaged, invoked>>

\* the lists of texts given to start_process: what a text says decides
\* neither its custom_id nor its chunk, so one text stands for all
CatTexts == {[i \in 1..n |-> "t1"] : n \in 0..MaxItems}

NextCat ==
    \/ \E t \in CatTexts, bs \in 1..MaxItems, f \in CatFaults, k \in 1..MaxItems :
          CatStartProcessOn(t, bs, f, k)
    \/ CatCheckStatus
    \/ \E b \in DOMAIN remote : RemoteRun(b)
    \/ \E b \in DOMAIN remote : \E o \in [DOMAIN remote[b].tasks -> TaskOutcomes] :
          RemoteComplete(b, o)
    \/ \E b \in DOMAIN remote, st \in {"failed", "cancelled", "expired"} :
          RemoteEnd(b, st, FALSE)

SpecCat == Init /\ [][NextCat]_vars

\* ------------------------------------------------ a shared state directory
\* SimpleBatchManager.fetch_results(job_name) of a manager whose state_dir is
\* the one of the OfflineQuestionDetector (both default to Path(".batch_jobs")
\* and name the file f"{job_name}.json"): the record it loads is the one the
\* detector's start saved
SBMFetchResultsShared(j, dlFail, raising) ==
    LET jobs == store[j]
        r == IF jobs = <<>>
             THEN [cleared |-> FALSE,
                   call |-> [NoCall EXCEPT !.cls = "sbm", !.op = "fetch_results", !.job = j,
                                           !.outcome = "raise", !.exc = "IndexError"]]
             ELSE SBMFetchOn(j, jobs[1], dlFail, raising)
        attempted == Range(r.call.trace)
    IN /\ sbmSchema # "unconstructed"
       /\ ~LoadStateRaises("obp", j)
       /\ dlFail = "out" => "download_out" \in attempted
       /\ dlFail = "err" => "download_err" \in attempted
       /\ raising # {} => "dispatch" \in attempted
       /\ store' = IF r.cleared THEN [store EXCEPT ![j] = <<>>] ELSE store
       /\ remote' = IF r.cleared THEN [b \in DOMAIN remote \ {jobs[1].id} |-> remote[b]]
                     ELSE remote
       /\ submitted' = [submitted EXCEPT !["obp"][j] = 0]
       /\ last' = r.call
       /\ UNCHANGED <<race, cat, upload, damaged, invoked, sbmStore, sbmSchema, nextBatch, expect>>

NextShared ==
    \/ \E a \in SchemaArgs : SBMConstruct(a)
    \/ \E j \in Jobs, p \in Payloads, f \in StartFaults : Start(j, p, f)
    \/ \E j \in Jobs, d \in DownloadFaults, r \in SUBSET Range(Handlers) :
          SBMFetchResultsShared(j, d, r)
    \/ \E b \in DOMAIN remote : RemoteRun(b)
    \/ \E b \in DOMAIN remote : \E o \in [DOMAIN remote[b].tasks -> TaskOutcomes] :
          RemoteComplete(b, o)
    \/ \E b \in DOMAIN remote, st \in {"failed", "cancelled", "expired"}, e \in BOOLEAN :
          RemoteEnd(b, st, e)

SpecShared == Init /\ [][NextShared]_vars

\* ------------------------------------------- two processes calling start
\* start, statement by statement, for processes that share the state_dir:
\* `existing = self._load_state(job_name)`
RaceLoad(p, j) ==
    /\ race[p].pc = "idle"
    /\ ~LoadStateRaises("obp", j)
    /\ race' = [race EXCEPT ![p] = [pc |-> "loaded", existing |-> store[j], batch |-> 0]]
    /\ UNCHANGED <<cat, store, sbmSchema, sbmStore, remote, nextBatch, submitted, expect,
                   upload, damaged, invoked, last>>

\* `if existing: return`, then _prepare_upload_file, files.create and
\* batches.create: decided by what the process loaded, not by the file now
RaceSubmit(p, j, payload, fault) ==
    LET existing == race[p].existing
        stage == StartStage(existing, PrepareUploadFileRaises(payload), fault)
        b == nextBatch + 1
    IN /\ race[p].pc = "loaded"
       /\ StartInputsMatter(stage, payload, fault)
       /\ stage = "saved" => nextBatch < MaxBatches
       /\ race' = [race EXCEPT ![p].pc = CASE stage = "resumed" -> "returned"
                                            [] stage = "saved" -> "created"
                                            [] OTHER -> "raised",
                               ![p].batch = IF stage = "saved" THEN b ELSE 0]
       /\ remote' = IF stage = "saved"
                      THEN (b :> NewBatch(PrepareUploadFile(payload))) @@ remote ELSE remote
       /\ nextBatch' = IF stage = "saved" THEN b ELSE nextBatch
       /\ submitted' = IF stage = "saved"
                         THEN [submitted EXCEPT !["obp"][j] = @ + 1] ELSE submitted
       /\ UNCHANGED <<cat, store, sbmSchema, sbmStore, expect, upload, damaged, invoked, last>>

\* `self._save_state(job_name, [batch_meta])`
RaceSave(p, j) ==
    /\ race[p].pc = "created"
    /\ store' = [store EXCEPT ![j] = SaveState(store[j], StartRecords(race[p].existing, "saved",
                                                                      race[p].batch))]
    /\ race' = [race EXCEPT ![p].pc = "returned"]
    /\ UNCHANGED <<cat, sbmSchema, sbmStore, remote, nextBatch, submitted, expect,
                   upload, damaged, invoked, last>>

NextRace ==
    \/ \E p \in Procs, j \in Jobs : RaceLoad(p, j)
    \/ \E p \in Procs, j \in Jobs, q \in Payloads, f \in StartFaults : RaceSubmit(p, j, q, f)
    \/ \E p \in Procs, j \in Jobs : RaceSave(p, j)
    \/ \E b \in DOMAIN remote : RemoteRun(b)

SpecRace == Init /\ [][NextRace]_vars

\* ================================================================== claims
StoreOf(cls) == IF cls = "sbm" THEN sbmStore ELSE store
Downloaded(e) == e \in {"download_out", "download_err"}
\* the call reported in `last` is op of OfflineBatchProcessor on a job name
\* that had a record
CalledOn(op) == last.cls = "obp" /\ last.op = op /\ last.pre # <<>>
\* what the remote answers for the first record the call read
SeenInfo == Retrieve(last.pre[1].id)
OutcomeIds(info, kind) == {info.tasks[i] : i \in {k \in DOMAIN info.outcome : info.outcome[k] = kind}}

\* C1: idempotent start.  Between two fetch_results calls the starts on one
\* job name create at most one remote batch, and exactly one record is kept
\* for it; a start that finds a record returns, performs no remote or store
\* operation, and leaves the record as it was.
C1_IdempotentStart ==
    /\ \A c \in Classes, j \in Jobs :
          /\ submitted[c][j] <= 1
          /\ Len(StoreOf(c)[j]) <= 1
          /\ submitted[c][j] = 1 => Len(StoreOf(c)[j]) = 1
    /\ (last.op = "start" /\ last.pre # <<>>) =>
          /\ last.outcome = "return"
          /\ last.trace = <<>>
          /\ StoreOf(last.cls)[last.job] = last.pre

\* a SimpleBatchManager start has just resumed over the record of the one
\* batch submitted, while the OfflineBatchProcessor holds its one record too
C1_Witness ==
    /\ last.op = "start" /\ last.cls = "sbm" /\ last.value = "resumed"
    /\ submitted["sbm"][last.job] = 1 /\ Len(sbmStore[last.job]) = 1
    /\ submitted["obp"][last.job] = 1 /\ Len(store[last.job]) = 1

\* C2: atomic start failure.  A start that raised in file preparation,
\* upload or batch creation leaves no record for the job name, and the start
\* that follows it on that job name, if nothing raises, submits a new batch
\* and saves its record (it is not taken for a resume).
C2_AtomicStartFailure ==
    /\ (last.op = "start" /\ last.outcome = "raise") =>
          /\ last.value \in {"prepare", "upload", "create"}
          /\ StoreOf(last.cls)[last.job] = <<>>
    /\ (last.op = "start" /\ last.retry /\ last.outcome = "return") =>
          /\ last.value = "saved"
          /\ "create" \in Range(last.trace)
          /\ Len(StoreOf(last.cls)[last.job]) = 1

\* the retry of a start whose batch creation raised has submitted
C2_Witness ==
    /\ last.op = "start" /\ last.cls = "obp" /\ last.retry
    /\ last.value = "saved" /\ Len(store[last.job]) = 1

\* C3: custom-id fidelity.  A fetch_results call on a job whose batch is
\* completed with one accepted output line per task returns normally, and the
\* keys of its results map are the ids the caller of start expects: the keys
\* of a mapping payload, the generated ids of a list payload.
C3_CustomIdFidelity ==
    [][\A j \in Jobs :
          (/\ last'.cls = "obp" /\ last'.op = "fetch_results" /\ last'.job = j
           /\ store[j] # <<>>
           /\ Retrieve(store[j][1].id).status = "completed"
           /\ Retrieve(store[j][1].id).tasks # <<>>
           /\ \A i \in DOMAIN Retrieve(store[j][1].id).outcome :
                 Retrieve(store[j][1].id).outcome[i] = "ok"
           /\ last'.exc \notin {"APIError", "HandlerError"})
          => /\ last'.outcome = "return"
             /\ DOMAIN last'.results = expect[j]
             /\ Cardinality(DOMAIN last'.results) = Len(Retrieve(store[j][1].id).tasks)]_vars

\* the call handed a non-empty results map to every handler and none raised
DispatchedToAll ==
    /\ last.cls = "obp" /\ last.op = "fetch_results"
    /\ "dispatch" \in Range(last.trace) /\ last.exc # "HandlerError"

NoFetchReturnsResults ==
    (last.op = "fetch_results" /\ last.cls = "obp" /\ last.outcome = "return")
        => last.results = <<>>

\* C5: partial failure isolation.  A fetch_results call whose output file
\* holds one entry the parser raises on among entries it accepts (at least
\* one), and whose downloads succeed, does not raise and returns the accepted
\* entries.  (The per-entry error the claim asks for has no counterpart in
\* what fetch_results builds, so only the return and the accepted entries
\* are stated.)
C5_PartialFailureIsolation ==
    (/\ CalledOn("fetch_results")
     /\ SeenInfo.status = "completed"
     /\ Cardinality({i \in DOMAIN SeenInfo.outcome : SeenInfo.outcome[i] = "bad"}) = 1
     /\ \A i \in DOMAIN SeenInfo.outcome : SeenInfo.outcome[i] \in {"ok", "bad"}
     /\ Len(SeenInfo.outcome) >= 2
     /\ last.exc \notin {"APIError", "HandlerError"})
    => /\ last.outcome = "return"
       /\ DOMAIN last.results = OutcomeIds(SeenInfo, "ok")

\* C6: failure surfacing.  A fetch_results call on a job whose remote status
\* is failed (and whose downloads, if any, succeed) raises the batch-failure
\* error and leaves the record as it was.
C6_FailureSurfacing ==
    (/\ CalledOn("fetch_results") /\ SeenInfo.status = "failed"
     /\ SeenInfo.tasks # <<>> /\ last.exc # "APIError")
    => /\ last.outcome = "raise" /\ last.exc = "RuntimeError"
       /\ store[last.job] = last.pre

\* C7: not-ready fetch.  A fetch_results call on a record without cached
\* artifact ids whose remote status is neither completed nor failed nor
\* cancelled returns an empty result set without raising, invokes no handler
\* and leaves the record.
C7_NotReadyFetch ==
    (/\ CalledOn("fetch_results")
     /\ last.pre[1].output_file_id = NoFile /\ last.pre[1].error_file_id = NoFile
     /\ SeenInfo.status \notin {"completed", "failed", "cancelled"}
     /\ SeenInfo.tasks # <<>>)
    => /\ last.outcome = "return" /\ last.results = <<>>
       /\ last.handled = <<>>
       /\ store[last.job] = last.pre

\* C8: persist-before-use.  In a fetch_results call that discovers artifact
\* ids, the record is saved before the first download; so whatever the call
\* does afterwards, the record it leaves (unless it cleared it) carries the
\* discovered ids.
C8_PersistBeforeUse ==
    (last.cls = "obp" /\ last.op = "fetch_results" /\ last.updated)
    => /\ \E i \in DOMAIN last.trace :
             /\ last.trace[i] = "save"
             /\ \A k \in DOMAIN last.trace : Downloaded(last.trace[k]) => i < k
       /\ \/ store[last.job] = <<>>
          \/ /\ SeenInfo.status = "completed" =>
                   store[last.job][1].output_file_id = OutputFileId(last.pre[1].id, SeenInfo)
             /\ SeenInfo.status \in {"failed", "cancelled"} =>
                   store[last.job][1].error_file_id = ErrorFileId(last.pre[1].id, SeenInfo)

\* C9: handler isolation.  When fetch_results dispatches its results, every
\* registered handler is invoked, whichever of them raise, and no handler's
\* exception leaves fetch_results.
C9_HandlerIsolation ==
    (last.cls = "obp" /\ last.op = "fetch_results" /\ "dispatch" \in Range(last.trace))
    => /\ last.handled = Handlers
       /\ last.exc # "HandlerError"

\* C10: status mapping.  On an existing record check_status returns, never
\* raises: failed or cancelled exactly when the remote says so, completed
\* exactly when the remote says completed, in_progress otherwise; is_ready
\* is true exactly when the remote says completed (or there is no record,
\* where check_status returns completed).
C10_StatusMapping ==
    /\ CalledOn("check_status") =>
          /\ last.outcome = "return"
          /\ SeenInfo.status \in {"failed", "cancelled", "completed"} => last.value = SeenInfo.status
          /\ SeenInfo.status \notin {"failed", "cancelled", "completed"} => last.value = "in_progress"
    /\ (last.cls = "obp" /\ last.op = "is_ready") =>
          /\ last.outcome = "return"
          /\ last.value = "True" <=> (last.pre = <<>> \/ SeenInfo.status = "completed")
          /\ last.value \in {"True", "False"}

\* check_status has surfaced a failed batch as its return value
C10_Witness ==
    /\ CalledOn("check_status") /\ SeenInfo.status = "failed"
    /\ last.outcome = "return" /\ last.value = "failed"

\* C11: status persistence.  After a check_status call on an existing record
\* the status held in the persisted record is the status the call derived:
\* the value it returned (or the remote status that value was mapped from).
C11_StatusPersistence ==
    CalledOn("check_status")
    => /\ store[last.job] # <<>>
       /\ store[last.job][1].status \in {last.value, SeenInfo.status}

\* C12: absent record in OfflineBatchProcessor.  With no record for the job
\* name, check_status returns completed and fetch_results returns an empty
\* result set; neither raises, performs a remote operation, invokes a
\* handler or leaves a record.
C12_AbsentRecord ==
    (last.cls = "obp" /\ last.op \in {"check_status", "fetch_results"} /\ last.pre = <<>>)
    => /\ last.outcome = "return" /\ last.exc = "none"
       /\ last.trace = <<>>
       /\ last.handled = <<>>
       /\ store[last.job] = <<>>
       /\ last.op = "check_status" => last.value = "completed"
       /\ last.op = "fetch_results" => last.value = "{}" /\ last.results = <<>>

\* fetch_results has answered for a job name without a record, after a batch
\* had been submitted
C12_Witness ==
    /\ last.cls = "obp" /\ last.op = "fetch_results" /\ last.pre = <<>>
    /\ last.value = "{}" /\ nextBatch >= 1

\* C13: absent record in SimpleBatchManager.  With no state file for the
\* job name, check_status returns completed and fetch_results returns an
\* empty map, both without raising.
C13_SBMAbsentRecord ==
    (last.cls = "sbm" /\ last.op \in {"check_status", "fetch_results"} /\ last.pre = <<>>)
    => /\ last.outcome = "return"
       /\ last.op = "check_status" => last.value = "completed"
       /\ last.op = "fetch_results" => last.value = "{}"

\* C14: record monotonicity.  In every step, a record that exists before and
\* after keeps its remote id, and an output or error artifact id that was set
\* keeps its value.
C14_RecordMonotonicity ==
    [][\A j \in Jobs :
          (store[j] # <<>> /\ store'[j] # <<>>)
          => /\ Len(store'[j]) = Len(store[j])
             /\ \A i \in DOMAIN store[j] :
                   /\ store'[j][i].id = store[j][i].id
                   /\ store[j][i].output_file_id # NoFile
                         => store'[j][i].output_file_id = store[j][i].output_file_id
                   /\ store[j][i].error_file_id # NoFile
                         => store'[j][i].error_file_id = store[j][i].error_file_id]_vars

\* a fetch_results call has run on a record that already held an output
\* artifact id, and the record is still there
C14_Witness ==
    /\ CalledOn("fetch_results")
    /\ last.pre[1].output_file_id # NoFile
    /\ store[last.job] # <<>>

\* C15: artifact discovery on success.  A fetch_results call on a record
\* without cached artifact ids whose batch is completed with an output file
\* (of entries the parser accepts) and an error file downloads the error file
\* and returns, and the record, unless that call cleared it, holds both ids.
C15_ArtifactDiscovery ==
    [][\A j \in Jobs :
          (/\ last'.cls = "obp" /\ last'.op = "fetch_results" /\ last'.job = j
           /\ store[j] # <<>>
           /\ store[j][1].output_file_id = NoFile /\ store[j][1].error_file_id = NoFile
           /\ Retrieve(store[j][1].id).status = "completed"
           /\ OutputFileId(store[j][1].id, Retrieve(store[j][1].id)) # NoFile
           /\ ErrorFileId(store[j][1].id, Retrieve(store[j][1].id)) # NoFile
           /\ \A i \in DOMAIN Retrieve(store[j][1].id).outcome :
                 Retrieve(store[j][1].id).outcome[i] \in {"ok", "err"}
           /\ last'.exc \notin {"APIError", "HandlerError"})
          => /\ "download_err" \in Range(last'.trace)
             /\ last'.outcome = "return"
             /\ store'[j] # <<>> =>
                   /\ store'[j][1].output_file_id = OutFile(store[j][1].id)
                   /\ store'[j][1].error_file_id = ErrFile(store[j][1].id)]_vars

\* C16: custom-id uniqueness.  In every task file a submitter wrote for a
\* payload it accepted, the custom_id values are pairwise distinct.
C16_CustomIdUniqueness ==
    upload.outcome = "return"
    => \A f \in DOMAIN upload.files : IsInjective(upload.files[f])

\* the batch of the record kept under job name n is completed, with an
\* output file of entries the parser accepts and nothing else
CompletedWithResults(n) ==
    /\ store[n] # <<>>
    /\ Retrieve(store[n][1].id).status = "completed"
    /\ Retrieve(store[n][1].id).tasks # <<>>
    /\ \A i \in DOMAIN Retrieve(store[n][1].id).outcome :
          Retrieve(store[n][1].id).outcome[i] = "ok"

\* C17: handlers run once per completed job.  No handler is ever invoked
\* twice for one job; once a job's results have been dispatched and its
\* record cleared every handler has been invoked exactly once; a job started
\* by detect (whose call has ended) that is completed with results has had
\* every handler invoked exactly once; and a fetch_results call made without
\* a record or before completion invokes no handler.
C17_HandlersOncePerJob ==
    /\ \A n \in DOMAIN invoked : \A h \in Range(Handlers) : invoked[n][h] <= 1
    /\ \A j \in Jobs :
          (store[j] = <<>> /\ \E h \in Range(Handlers) : invoked[j][h] > 0)
          => \A h \in Range(Handlers) : invoked[j][h] = 1
    /\ \A n \in DOMAIN store \ Jobs :
          CompletedWithResults(n) => \A h \in Range(Handlers) : invoked[n][h] = 1
    /\ (last.cls = "obp" /\ last.op = "fetch_results"
          /\ (last.pre = <<>> \/ SeenInfo.status \in {"validating", "in_progress"}))
       => last.handled = <<>>

\* C18: clear only after dispatch.  A fetch_results call deletes the record
\* only with a non-empty results map and after every handler has been
\* invoked; when the dispatch raises, or the results map is empty, the record
\* is still there after the call.
C18_ClearAfterDispatch ==
    CalledOn("fetch_results")
    => /\ store[last.job] = <<>> <=> "clear" \in Range(last.trace)
       /\ "clear" \in Range(last.trace) =>
             /\ last.results # <<>>
             /\ last.handled = Handlers
             /\ \E i, k \in DOMAIN last.trace :
                   i < k /\ last.trace[i] = "dispatch" /\ last.trace[k] = "clear"
       /\ last.exc = "HandlerError" => store[last.job] # <<>>
       /\ last.results = <<>> => store[last.job] # <<>>

\* a dispatch has raised and the record, with the ids of the results'
\* files, is still there
C18_Witness ==
    /\ CalledOn("fetch_results") /\ last.exc = "HandlerError"
    /\ last.results # <<>>
    /\ store[last.job] # <<>> /\ store[last.job][1].output_file_id # NoFile

\* C19: corrupt state is absent.  _load_state never raises on an unreadable
\* state file, and check_status and fetch_results of OfflineBatchProcessor on
\* a job name whose state file is unreadable answer as they do without a
\* record: completed, and an empty result set.
C19_CorruptStateIsAbsent ==
    /\ last.exc # "JSONDecodeError"
    /\ (/\ last.cls = "obp" /\ last.op \in {"check_status", "fetch_results"}
        /\ last.outcome # "crash" /\ LoadStateRaises(last.cls, last.job))
       => /\ last.outcome = "return"
          /\ last.op = "check_status" => last.value = "completed"
          /\ last.op = "fetch_results" => last.value = "{}"

\* C20: crash-safe save.  After a process died inside _save_state over a
\* record that existed, the state file is readable and holds either the
\* records saved before or the records being saved.
C20_CrashSafeSave ==
    (last.outcome = "crash" /\ last.pre # <<>>)
    => /\ ~LoadStateRaises(last.cls, last.job)
       /\ \/ StoreOf(last.cls)[last.job] = last.pre
          \/ StoreOf(last.cls)[last.job] = last.saving

\* C21: two processes that call start under one job name, each having loaded
\* the state file before the other saved, both create a remote batch; once
\* both have returned the state file holds a single record, that of one of
\* the two batches, and both batches exist at the remote.
C21_StartRace ==
    \A j \in Jobs :
        /\ Len(store[j]) <= 1
        /\ \A p \in Procs : race[p].pc = "created" => race[p].existing = <<>>
        /\ (\A p \in Procs : race[p].pc = "returned" /\ race[p].batch > 0 /\ race[p].existing = <<>>)
              => /\ store[j] \in {<<BatchMeta(race[p].batch)>> : p \in Procs}
                 /\ {race[p].batch : p \in Procs} \subseteq DOMAIN remote
                 /\ Cardinality({race[p].batch : p \in Procs}) = 2
C21_Witness ==
    /\ \A p \in Procs : race[p].pc = "returned" /\ race[p].batch > 0 /\ race[p].existing = <<>>
    /\ race["p1"].batch # race["p2"].batch
    /\ Len(store["j1"]) = 1

\* C22: detect ends its wait in one of two ways.  A detect call whose start
\* created the job either returns the parsed boolean or raises TimeoutError,
\* and in both cases it has waited on the job (polled its status); the record
\* of the job is left in place by the call.
C22_DetectEndsWait ==
    (last.op = "detect" /\ last.value = "saved")
    => /\ last.outcome = "return" \/ last.exc = "TimeoutError"
       /\ "retrieve" \in Range(last.trace)
       /\ store[last.job] # <<>>

\* C23: clear implies return.  A fetch_results call that deleted the job's
\* record ends by returning the non-empty results map, never with an
\* exception: in particular on a completed job with an output file and no
\* error file.
C23_ClearImpliesReturn ==
    (/\ last.cls = "obp" /\ last.op = "fetch_results"
     /\ "clear" \in Range(last.trace))
    => /\ last.outcome = "return"
       /\ last.results # <<>>

CatStatus(i) == Retrieve(last.pre[i].batch_id).status
CatUnchanged == cat.jobs = last.pre /\ cat.file = CatSaveState(last.pre)

\* C25: check_status of the categorizer OfflineCategorizer.  With no recorded
\* job the call returns None; with a recorded batch that is failed or
\* cancelled it raises RuntimeError and leaves the job list and the state
\* file; otherwise, with a recorded batch that is not completed, it returns
\* None and leaves them; with every recorded batch completed (each with an
\* output file of readable lines) it returns the combined results and leaves
\* the job list empty and the state file absent.
C25_CatCheckStatus ==
    (last.cls = "cat" /\ last.op = "check_status")
    => /\ last.pre = <<>> => last.outcome = "return" /\ last.value = "None"
       /\ (\E i \in DOMAIN last.pre : CatStatus(i) \in {"failed", "cancelled"})
            => last.exc = "RuntimeError" /\ CatUnchanged
       /\ (/\ \E i \in DOMAIN last.pre : CatStatus(i) # "completed"
           /\ \A i \in DOMAIN last.pre : CatStatus(i) \notin {"failed", "cancelled"})
            => last.outcome = "return" /\ last.value = "None" /\ CatUnchanged
       /\ (/\ last.pre # <<>>
           /\ \A i \in DOMAIN last.pre :
                 LET info == Retrieve(last.pre[i].batch_id)
                 IN /\ info.status = "completed" /\ info.outcome # <<>>
                    /\ \A k \in DOMAIN info.outcome : info.outcome[k] = "ok")
            => /\ last.outcome = "return" /\ last.results # <<>>
               /\ cat = NoCategorizer

C26_ConstructorValidates ==
    (last.cls = "sbm" /\ last.op = "init")
    => /\ last.value \in {"None", "dict_value"}
            => last.outcome = "return" /\ sbmSchema = last.value
       /\ last.exc = "ValueError" => last.value \notin {"None", "dict_value"}

\* the job's batch has ended without anything to fetch: failed, cancelled,
\* or completed without an output file
EndedEmpty(j) ==
    /\ store[j] # <<>>
    /\ LET info == Retrieve(store[j][1].id)
       IN \/ info.status \in {"failed", "cancelled"}
          \/ info.status = "completed" /\ OutputFileId(store[j][1].id, info) = NoFile

\* C27: record removal has a single cause.  In every step of start,
\* check_status, is_ready and fetch_results calls, a record that exists is
\* removed only by a fetch_results call on its job name that produced a
\* non-empty results map; a record whose batch is failed, cancelled or
\* completed with no output stays, with its batch as it ended; and a start on
\* a job name that has a record returns without submitting.
C27_SingleRemovalCause ==
    [][\A j \in Jobs :
          /\ (store[j] # <<>> /\ store'[j] = <<>>)
                => /\ last'.cls = "obp" /\ last'.op = "fetch_results" /\ last'.job = j
                   /\ last'.results # <<>>
          /\ EndedEmpty(j) => EndedEmpty(j)' /\ store'[j][1].id = store[j][1].id
          /\ (store[j] # <<>> /\ last'.cls = "obp" /\ last'.op = "start" /\ last'.job = j)
                => /\ last'.outcome = "return" /\ last'.trace = <<>>
                   /\ nextBatch' = nextBatch /\ remote' = remote
                   /\ store'[j] = store[j]]_vars
\* a start has returned over the record of a batch that had failed or been
\* cancelled, after a fetch_results call on it
C27_Witness ==
    /\ last.cls = "obp" /\ last.op = "start" /\ last.value = "resumed"
    /\ EndedEmpty(last.job)
    /\ store[last.job][1].error_file_id # NoFile
====
